---- MODULE Spec2Model ----
(***************************************************************************)
(* State-machine model of the systray tray-icon library:                   *)
(*   - the Mac OS X backend, src/src/api/cocoa/mod.rs (struct Window);     *)
(*   - the application threads of src/examples/trayicon.rs, which share    *)
(*     one application behind Arc<Mutex<..>>;                              *)
(*   - the application facade and the backend of the other platforms       *)
(*     (platform = "generic"), which follow the specification.             *)
(***************************************************************************)
EXTENDS Integers, Sequences, FiniteSets, TLC

\* ---------------------------------------------------------------- bounds
\* Events sent on one window's handler channel in one run.
MaxSends == 2
\* Threads spawned by wait_for_message in one run.
MaxSleepers == 1
\* Calls (Window::new and methods of Window) begun in one run.
MaxCalls == 4
\* Menu-item ids one application hands out in one run.
MaxItems == 3
\* Entries (items and separators) of one menu.
MaxMenu == 4
\* Menu-item activations the native side reports in one run.
MaxActivations == 3

\* ------------------------------------------------------------- constants
ICON_WIDTH == 32
ICON_HEIGHT == 32

None == "none"
\* No image: the tray button before the first setImage_.
NoImage == [data |-> None, width |-> 0, height |-> 0]
\* Application threads: the main thread and the thread spawned by main().
AppThreads == {"main", "bg"}
\* The process creates at most two Window values.
Windows == {1, 2}
\* Image buffers (&'static [u8]) the application passes.
Buffers == {"imgA", "imgB"}
\* Pixel sizes the application requests.
Sizes == {32, 256}
\* Tooltip texts.
Texts == {"", "tip"}
\* Build targets: the cocoa backend of src/, or another platform's backend.
Platforms == {"cocoa", "generic"}
\* The callbacks of examples/trayicon.rs: "Print a thing", "Add Menu Item"
\* (adds an interior item and a separator) and "Quit".
Callbacks == {"print", "nest", "quit"}

VARIABLES
  platform,     \* compile-time target
  pc,           \* pc[t]: where application thread t is
  cur,          \* cur[t]: the window thread t is calling into
  outcome,      \* how the most recent call ended: [w, op, res]
  created,      \* created[w]: Window::new has returned Ok(window)
  appLock,      \* appLock[w]: holder of the example's Mutex<Application>
  poisoned,     \* poisoned[w]: a thread panicked holding appLock[w]
  guardApp,     \* guardApp[w]: holder of window.application's SafeId mutex
  guardTray,    \* guardTray[w]: holder of window.tray's SafeId mutex
  handler,      \* handler[w]: the OsxSystemTrayEvent channel of window w
  lpc,          \* lpc[w]: where the listener thread of window w is
  pending,      \* pending[w]: the NSImage the listener is about to set
  trayImage,    \* trayImage[w]: image of the tray button of window w
  using,        \* using[o]: threads inside a native call on object o
  mutations,    \* ghost: (native object, thread) pairs of mutations made
  quitCalled,   \* ghost: quitCalled[w]: quit() has been invoked on w
  sleepers,     \* threads spawned by wait_for_message
  sentLog,      \* ghost: sentLog[w]: every event sent on handler[w], in order
  consumedLog,  \* ghost: consumedLog[w]: every event the listener received
  calls,        \* ghost: calls begun so far
  shut,         \* ghost: shut[w]: shutdown() has returned on w
  requestedSize,\* ghost: requestedSize[w]: width and height of each
                \* set_icon_from_buffer call that sent, in order
  \* the application facade and the backend of the other platforms
  lifecycle,    \* Uninitialized, Running, Terminating, Terminated
  menu,         \* the native menu: its entries in displayed order
  menu_idx,     \* the next unused menu-item id
  callback,     \* callback[id]: the callback registered for id, or None
  event_rx,     \* queued MenuItemActivated(id) events
  running,      \* the callbacks being executed, innermost last
  activated,    \* ghost: ids of the events in the order they were queued
  handled,      \* ghost: events the loop has received: [id, registered]
  invoked,      \* ghost: callbacks invoked: [id, cb], in order
  returned,     \* ghost: ids add_menu_item has returned, in call order
  addLog        \* ghost: the add_menu_item/add_menu_separator calls, in order

vars == <<platform, pc, cur, outcome, created, appLock, poisoned, guardApp,
          guardTray, handler, lpc, pending, trayImage, using, mutations,
          quitCalled, sleepers, sentLog, consumedLog, calls, shut,
          requestedSize,
          lifecycle, menu, menu_idx, callback, event_rx, running,
          activated, handled, invoked, returned, addLog>>

\* The state only the generic platform uses.
genericVars == <<lifecycle, menu, menu_idx, callback, event_rx, running,
                 activated, handled, invoked, returned, addLog>>
\* The state only the cocoa backend uses.
cocoaVars == <<cur, created, appLock, poisoned, guardApp, guardTray, handler,
               lpc, pending, trayImage, using, mutations, sleepers,
               sentLog, consumedLog, calls, shut, requestedSize>>

\* ------------------------------------------------------------- helpers
\* The listener thread of window w (thread::spawn in run_lister).
Listener(w) == IF w = 1 THEN "L1" ELSE "L2"
ListenerThreads == {Listener(w) : w \in Windows}
\* The status item made by init_tray for window w.
TrayObj(w) == IF w = 1 THEN "tray1" ELSE "tray2"
NativeObjects == {"NSApp"} \cup {TrayObj(w) : w \in Windows}

\* SafeId: the native object a guard wraps.  window.application wraps the
\* process-wide NSApp(), window.tray wraps the window's own status item.
WrappedByApplication(w) == "NSApp"
WrappedByTray(w) == TrayObj(w)

NoOutcome == [w |-> 0, op |-> None, res |-> None]
Outcome(t, w, op, res) == [w |-> w, op |-> op, res |-> res]

\* A panic of the main thread ends the process; of another thread, the thread.
Alive == pc["main"] # "panicked"

\* A sender that sends OsxSystemTrayEvent::Shutdown in place of ChangeImage.
ChangeImage_shutdown(buf, t, n) == [kind |-> "Shutdown", buf |-> buf, from |-> t, n |-> n]
\* OsxSystemTrayEvent::ChangeImage(buffer); from and n are ghost tags
\* (sending thread, position in sentLog).
ChangeImage(buf, t, n) == [kind |-> "ChangeImage", buf |-> buf, from |-> t, n |-> n]

\* Sender::send / the channel's queue discipline.
Send(q, e) == Append(q, e)
\* A listener that drops the event queued behind the one it takes.
RecvRest_skip(q) == IF Len(q) > 1 THEN Tail(Tail(q)) ELSE Tail(q)
\* Receiver::try_iter: the next event delivered and what stays queued.
RecvNext(q) == Head(q)
RecvRest(q) == Tail(q)

\* ---------------------------------------------------------------- Init
Init ==
  /\ platform \in Platforms
  /\ pc = [t \in AppThreads |-> "idle"]
  /\ cur = [t \in AppThreads |-> 0]
  /\ outcome = NoOutcome
  /\ created = [w \in Windows |-> FALSE]
  /\ appLock = [w \in Windows |-> None]
  /\ poisoned = [w \in Windows |-> FALSE]
  /\ guardApp = [w \in Windows |-> None]
  /\ guardTray = [w \in Windows |-> None]
  /\ handler = [w \in Windows |-> <<>>]
  /\ lpc = [w \in Windows |-> "unspawned"]
  /\ pending = [w \in Windows |-> NoImage]
  /\ trayImage = [w \in Windows |-> NoImage]
  /\ using = [o \in NativeObjects |-> {}]
  /\ mutations = {}
  /\ quitCalled = [w \in Windows |-> FALSE]
  /\ sleepers = 0
  /\ sentLog = [w \in Windows |-> <<>>]
  /\ consumedLog = [w \in Windows |-> <<>>]
  /\ calls = 0
  /\ shut = [w \in Windows |-> FALSE]
  /\ requestedSize = [w \in Windows |-> <<>>]
  /\ lifecycle = "Uninitialized"
  /\ menu = <<>>
  /\ menu_idx = 0
  /\ callback = [i \in 0..(MaxItems - 1) |-> None]
  /\ event_rx = <<>>
  /\ running = <<>>
  /\ activated = <<>>
  /\ handled = <<>>
  /\ invoked = <<>>
  /\ addLog = <<>>
  /\ returned = <<>>


\* ------------------------------------------- the example's shared mutex
\* app.lock(): the thread asks for the Mutex<Application> of window w.
app_lock(t, w) ==
  /\ platform = "cocoa" /\ Alive
  /\ pc[t] = "idle" /\ created[w]
  /\ calls < MaxCalls
  /\ calls' = calls + 1
  /\ pc' = [pc EXCEPT ![t] = "locking"]
  /\ cur' = [cur EXCEPT ![t] = w]
  /\ UNCHANGED <<platform, outcome, created, appLock, poisoned, guardApp,
                 guardTray, handler, lpc, pending, trayImage, using,
                 mutations, quitCalled, sleepers, sentLog, consumedLog, shut,
                 requestedSize, genericVars>>

\* .lock().unwrap(): the mutex is free; a poisoned mutex panics the caller.
app_lock_acquired(t) ==
  /\ platform = "cocoa" /\ Alive
  /\ pc[t] = "locking" /\ appLock[cur[t]] = None
  /\ IF poisoned[cur[t]]
       THEN /\ pc' = [pc EXCEPT ![t] = "panicked"]
            /\ outcome' = Outcome(t, cur[t], "lock", "panic")
            /\ UNCHANGED appLock
       ELSE /\ pc' = [pc EXCEPT ![t] = "holding"]
            /\ appLock' = [appLock EXCEPT ![cur[t]] = t]
            /\ UNCHANGED outcome
  /\ UNCHANGED <<platform, cur, created, poisoned, guardApp, guardTray,
                 handler, lpc, pending, trayImage, using, mutations,
                 quitCalled, sleepers, sentLog, consumedLog, calls, shut,
          requestedSize,
                 requestedSize, genericVars>>

\* The call returns res; the temporary MutexGuard is dropped with the statement.
Returns(t, op, res) ==
  /\ pc' = [pc EXCEPT ![t] = "idle"]
  /\ appLock' = [appLock EXCEPT ![cur[t]] = None]
  /\ outcome' = Outcome(t, cur[t], op, res)
  /\ UNCHANGED <<cur, poisoned>>

\* unimplemented!() / unwrap() on Err: the calling thread unwinds; the
\* MutexGuard it holds is dropped during the unwinding and poisons the mutex.
Panics(t, op) ==
  /\ pc' = [pc EXCEPT ![t] = "panicked"]
  /\ appLock' = [appLock EXCEPT ![cur[t]] = None]
  /\ poisoned' = [poisoned EXCEPT ![cur[t]] = TRUE]
  /\ outcome' = Outcome(t, cur[t], op, "panic")
  /\ UNCHANGED cur

\* A thread that has the application and is about to call a method on it.
Calling(t) == platform = "cocoa" /\ Alive /\ pc[t] = "holding"

\* ------------------------------------------------------- Window::new
\* Windows are made in the order 1, 2.
NextWindow(w) ==
  /\ ~created[w]
  /\ \A v \in Windows : v < w => created[v]
  /\ \A u \in AppThreads : ~(pc[u] = "new" /\ cur[u] = w)

\* new, first half: NSApp().setActivationPolicy_(..) on the calling thread,
\* before any SafeId exists for this window.
new_setActivationPolicy(t, w) ==
  /\ platform = "cocoa" /\ Alive
  /\ pc[t] = "idle" /\ NextWindow(w)
  /\ calls < MaxCalls
  /\ calls' = calls + 1
  /\ pc' = [pc EXCEPT ![t] = "new"]
  /\ cur' = [cur EXCEPT ![t] = w]
  /\ using' = [using EXCEPT !["NSApp"] = @ \cup {t}]
  /\ mutations' = mutations \cup {[obj |-> "NSApp", by |-> t]}
  /\ UNCHANGED <<platform, outcome, created, appLock, poisoned, guardApp,
                 guardTray, handler, lpc, pending, trayImage, quitCalled,
                 sleepers, sentLog, consumedLog, shut,
                 requestedSize, genericVars>>

\* new, second half: the pool, the three SafeIds, the channel and the
\* listener thread are made and Ok(window) is returned.
new(t) ==
  /\ platform = "cocoa" /\ Alive
  /\ pc[t] = "new"
  /\ using' = [using EXCEPT !["NSApp"] = @ \ {t}]
  /\ created' = [created EXCEPT ![cur[t]] = TRUE]
  /\ lpc' = [lpc EXCEPT ![cur[t]] = "poll"]
  /\ pc' = [pc EXCEPT ![t] = "idle"]
  /\ outcome' = Outcome(t, cur[t], "new", "Ok")
  /\ UNCHANGED <<platform, cur, appLock, poisoned, guardApp, guardTray,
                 handler, pending, trayImage, mutations, quitCalled,
                 sleepers, sentLog, consumedLog, calls, shut,
                 requestedSize, genericVars>>

\* ------------------------------------------------------- Window::run
\* self.application.clone().0.lock().unwrap().run(): the application guard
\* is taken and NSApplication's run loop entered; the statement does not end.
run(t) ==
  /\ Calling(t)
  /\ guardApp[cur[t]] = None
  /\ guardApp' = [guardApp EXCEPT ![cur[t]] = t]
  /\ using' = [using EXCEPT ![WrappedByApplication(cur[t])] = @ \cup {t}]
  /\ pc' = [pc EXCEPT ![t] = "in_run"]
  /\ UNCHANGED <<platform, cur, outcome, created, appLock, poisoned,
                 guardTray, handler, lpc, pending, trayImage, mutations,
                 quitCalled, sleepers, sentLog, consumedLog, calls, shut,
          requestedSize,
                 requestedSize, genericVars>>

\* ------------------------------------------------- the listener thread
\* The NSImage the listener builds from a buffer: setSize: ICON_WIDTH x ICON_HEIGHT.
NSImageOf(buf) == [data |-> buf, width |-> ICON_WIDTH, height |-> ICON_HEIGHT]

\* One turn of `for e in rx.try_iter()`: the next event is received; for
\* ChangeImage the image is built, the tray guard locked and setImage_
\* entered; for Shutdown the thread panics on unimplemented!().
run_lister_recv(w) ==
  /\ platform = "cocoa" /\ Alive
  /\ lpc[w] = "poll" /\ handler[w] # <<>>
  /\ LET e == RecvNext(handler[w]) IN
       /\ handler' = [handler EXCEPT ![w] = RecvRest(handler[w])]
       /\ consumedLog' = [consumedLog EXCEPT ![w] = Append(@, e)]
       /\ IF e.kind = "ChangeImage"
            THEN /\ guardTray[w] = None
                 /\ guardTray' = [guardTray EXCEPT ![w] = Listener(w)]
                 /\ pending' = [pending EXCEPT ![w] = NSImageOf(e.buf)]
                 /\ using' = [using EXCEPT ![WrappedByTray(w)] = @ \cup {Listener(w)}]
                 /\ mutations' = mutations \cup
                                   {[obj |-> WrappedByTray(w), by |-> Listener(w)]}
                 /\ lpc' = [lpc EXCEPT ![w] = "setImage"]
            ELSE /\ lpc' = [lpc EXCEPT ![w] = "dead"]
                 /\ UNCHANGED <<guardTray, pending, using, mutations>>
  /\ UNCHANGED <<platform, pc, cur, outcome, created, appLock, poisoned,
                 guardApp, trayImage, quitCalled, sleepers, sentLog, calls, shut,
                 requestedSize, genericVars>>

\* A listener whose tray guard outlives the setImage_ statement.
run_lister_setImage_keeps_guard(w) ==
  /\ platform = "cocoa" /\ Alive
  /\ lpc[w] = "setImage"
  /\ trayImage' = [trayImage EXCEPT ![w] = pending[w]]
  /\ pending' = [pending EXCEPT ![w] = NoImage]
  /\ guardTray' = guardTray
  /\ using' = [using EXCEPT ![WrappedByTray(w)] = @ \ {Listener(w)}]
  /\ lpc' = [lpc EXCEPT ![w] = "poll"]
  /\ UNCHANGED <<platform, pc, cur, outcome, created, appLock, poisoned,
                 guardApp, handler, mutations, quitCalled, sleepers,
                 sentLog, consumedLog, calls, shut,
                 requestedSize, genericVars>>

\* tray.0.lock().unwrap().button().setImage_(nsimage) completes and the
\* guard is dropped at the end of the statement.
run_lister_setImage(w) ==
  /\ platform = "cocoa" /\ Alive
  /\ lpc[w] = "setImage"
  /\ trayImage' = [trayImage EXCEPT ![w] = pending[w]]
  /\ pending' = [pending EXCEPT ![w] = NoImage]
  /\ guardTray' = [guardTray EXCEPT ![w] = None]
  /\ using' = [using EXCEPT ![WrappedByTray(w)] = @ \ {Listener(w)}]
  /\ lpc' = [lpc EXCEPT ![w] = "poll"]
  /\ UNCHANGED <<platform, pc, cur, outcome, created, appLock, poisoned,
                 guardApp, handler, mutations, quitCalled, sleepers,
                 sentLog, consumedLog, calls, shut,
                 requestedSize, genericVars>>

\* ------------------------------------------- the methods of Window
\* A set_tooltip that accepts the empty text.
set_tooltip_result_empty_ok(text) == IF text = "" THEN "Ok" ELSE "OsError"
\* What set_tooltip returns for a text.
set_tooltip_result(text) == "OsError"

\* set_tooltip: Err(Error::OsError("This operating system does not support
\* tooltips for the tray items")).
set_tooltip(t, text) ==
  /\ Calling(t)
  /\ Returns(t, "set_tooltip", set_tooltip_result(text))
  /\ UNCHANGED <<platform, created, guardApp, guardTray, handler, lpc,
                 pending, trayImage, using, mutations, quitCalled, sleepers,
                 sentLog, consumedLog, calls, shut,
                 requestedSize, genericVars>>

\* quit: unimplemented!().
quit(t) ==
  /\ Calling(t)
  /\ quitCalled' = [quitCalled EXCEPT ![cur[t]] = TRUE]
  /\ Panics(t, "quit")
  /\ UNCHANGED <<platform, created, guardApp, guardTray, handler, lpc,
                 pending, trayImage, using, mutations, sleepers, sentLog,
                 consumedLog, calls, shut,
                 requestedSize, genericVars>>

\* The body shared by the methods that are only unimplemented!().
Unimplemented(t, op) ==
  /\ Calling(t)
  /\ Panics(t, op)
  /\ UNCHANGED <<platform, created, guardApp, guardTray, handler, lpc,
                 pending, trayImage, using, mutations, quitCalled, sleepers,
                 sentLog, consumedLog, calls, shut,
                 requestedSize, genericVars>>

add_menu_item(t) == Unimplemented(t, "add_menu_item")
set_icon_from_resource(t) == Unimplemented(t, "set_icon_from_resource")
set_icon_from_file(t) == Unimplemented(t, "set_icon_from_file")
add_menu_separator(t) == Unimplemented(t, "add_menu_separator")
add_menu_entry(t) == Unimplemented(t, "add_menu_entry")

\* set_icon_from_buffer(buffer, _, _): sends ChangeImage(buffer) on the
\* handler channel and returns Ok(()); send(..).unwrap() panics when the
\* receiver (owned by the listener thread) is gone.
set_icon_from_buffer(t, buf, width, height) ==
  /\ Calling(t)
  /\ Len(sentLog[cur[t]]) < MaxSends
  /\ LET w == cur[t]
         e == ChangeImage(buf, t, Len(sentLog[w]) + 1)
     IN IF lpc[w] = "dead"
          THEN /\ Panics(t, "set_icon_from_buffer")
               /\ UNCHANGED <<handler, sentLog, requestedSize>>
          ELSE /\ handler' = [handler EXCEPT ![w] = Send(handler[w], e)]
               /\ sentLog' = [sentLog EXCEPT ![w] = Append(@, e)]
               /\ requestedSize' = [requestedSize EXCEPT ![w] =
                     Append(@, [width |-> width, height |-> height])]
               /\ Returns(t, "set_icon_from_buffer", "Ok")
  /\ UNCHANGED <<platform, created, guardApp, guardTray, lpc, pending,
                 trayImage, using, mutations, quitCalled, sleepers,
                 consumedLog, calls, shut,
                 genericVars>>

\* wait_for_message: spawns a thread that sleeps in a loop, returns Ok(()).
wait_for_message(t) ==
  /\ Calling(t)
  /\ sleepers < MaxSleepers
  /\ sleepers' = sleepers + 1
  /\ Returns(t, "wait_for_message", "Ok")
  /\ UNCHANGED <<platform, created, guardApp, guardTray, handler, lpc,
                 pending, trayImage, using, mutations, quitCalled, sentLog,
                 consumedLog, calls, shut,
                 requestedSize, genericVars>>

\* shutdown: Ok(()).
shutdown(t) ==
  /\ Calling(t)
  /\ shut' = [shut EXCEPT ![cur[t]] = TRUE]
  /\ Returns(t, "shutdown", "Ok")
  /\ UNCHANGED <<platform, created, guardApp, guardTray, handler, lpc,
                 pending, trayImage, using, mutations, quitCalled, sleepers,
                 sentLog, consumedLog, calls, requestedSize, genericVars>>

\* ------------------------------------------------ the generic platform
\* The application facade and the backend of the platforms other than
\* cocoa.  Their code is not among the sources: this part follows the
\* specification.  One application, driven by the main thread.
Ui == "main"
OnGeneric == platform = "generic" /\ Alive

\* A separator that uses up an id.
IdxAfterSeparator_consumes(idx) == idx + 1
\* A loop that always invokes the callback of id 0.
Lookup_first(cbs, id) == cbs[0]
\* A loop that runs a default callback for an id without callback.
Lookup_default(cbs, id) == IF cbs[id] = None THEN "print" ELSE cbs[id]
\* A separator that is put on top of the menu.
AddSeparator_front(f) ==
  [f EXCEPT !.menu = <<[kind |-> "separator", id |-> -1]>> \o @,
            !.menu_idx = @,
            !.addLog = Append(@, "separator")]
\* The id add_menu_item gives the new item, and the next unused id after
\* an item and after a separator.
NextId(idx) == idx
IdxAfterItem(idx) == idx + 1
IdxAfterSeparator(idx) == idx

\* The callback the loop invokes for an id.
Lookup(cbs, id) == cbs[id]
\* recv on the event channel: the next event and what stays queued.
EventNext(q) == Head(q)
EventRest(q) == Tail(q)

Facade == [menu |-> menu, menu_idx |-> menu_idx, callback |-> callback,
           returned |-> returned, addLog |-> addLog]
\* add_menu_item(label, cb): appends an entry, registers cb under the next
\* unused id and returns that id.
AddItem(f, cb) ==
  [menu |-> Append(f.menu, [kind |-> "item", id |-> NextId(f.menu_idx)]),
   menu_idx |-> IdxAfterItem(f.menu_idx),
   callback |-> [f.callback EXCEPT ![NextId(f.menu_idx)] = cb],
   returned |-> Append(f.returned, NextId(f.menu_idx)),
   addLog |-> Append(f.addLog, "item")]
\* add_menu_separator(): appends a divider; no callback, no id.
AddSeparator(f) ==
  [f EXCEPT !.menu = Append(@, [kind |-> "separator", id |-> -1]),
            !.menu_idx = IdxAfterSeparator(@),
            !.addLog = Append(@, "separator")]
SetFacade(f) ==
  /\ menu' = f.menu
  /\ menu_idx' = f.menu_idx
  /\ callback' = f.callback
  /\ returned' = f.returned
  /\ addLog' = f.addLog
\* Room within the bounds for more items and entries.
Room(f, items, entries) ==
  /\ f.menu_idx + items <= MaxItems
  /\ Len(f.menu) + entries <= MaxMenu

\* new(): Uninitialized -> Running.
Application_new ==
  /\ OnGeneric /\ pc[Ui] = "idle" /\ lifecycle = "Uninitialized"
  /\ lifecycle' = "Running"
  /\ outcome' = Outcome(Ui, 1, "new", "Ok")
  /\ UNCHANGED <<platform, pc, quitCalled, cocoaVars, menu, menu_idx,
                 callback, event_rx, running, activated, handled, invoked,
                 returned, addLog>>

\* add_menu_item called by the application outside a callback.
Application_add_menu_item(cb) ==
  /\ OnGeneric /\ pc[Ui] = "idle" /\ lifecycle = "Running"
  /\ Room(Facade, 1, 1)
  /\ SetFacade(AddItem(Facade, cb))
  /\ outcome' = Outcome(Ui, 1, "add_menu_item", "Ok")
  /\ UNCHANGED <<platform, pc, quitCalled, cocoaVars, lifecycle, event_rx,
                 running, activated, handled, invoked>>

\* add_menu_separator called by the application outside a callback.
Application_add_menu_separator ==
  /\ OnGeneric /\ pc[Ui] = "idle" /\ lifecycle = "Running"
  /\ Room(Facade, 0, 1)
  /\ SetFacade(AddSeparator(Facade))
  /\ outcome' = Outcome(Ui, 1, "add_menu_separator", "Ok")
  /\ UNCHANGED <<platform, pc, quitCalled, cocoaVars, lifecycle, event_rx,
                 running, activated, handled, invoked>>

\* quit() called by the application outside a callback: Running -> Terminating.
Application_quit ==
  /\ OnGeneric /\ pc[Ui] = "idle"
  /\ lifecycle \in {"Running", "Terminating"}
  /\ lifecycle' = "Terminating"
  /\ quitCalled' = [quitCalled EXCEPT ![1] = TRUE]
  /\ outcome' = Outcome(Ui, 1, "quit", "Ok")
  /\ UNCHANGED <<platform, pc, cocoaVars, menu, menu_idx, callback,
                 event_rx, running, activated, handled, invoked, returned,
                 addLog>>

\* wait_for_message()/run(): the main thread enters the event loop.
Application_wait_for_message ==
  /\ OnGeneric /\ pc[Ui] = "idle"
  /\ lifecycle \in {"Running", "Terminating"}
  /\ pc' = [pc EXCEPT ![Ui] = "in_loop"]
  /\ UNCHANGED <<platform, outcome, quitCalled, cocoaVars, genericVars>>

\* The native side reports a click on the entry with this id.
native_activate(id) ==
  /\ OnGeneric /\ lifecycle = "Running"
  /\ Len(activated) < MaxActivations
  /\ event_rx' = Append(event_rx, id)
  /\ activated' = Append(activated, id)
  /\ UNCHANGED <<platform, pc, outcome, quitCalled, cocoaVars, lifecycle,
                 menu, menu_idx, callback, running, handled, invoked,
                 returned, addLog>>

\* The loop receives the next MenuItemActivated(id): the callback of id is
\* invoked on the loop's thread; an id without callback is ignored.
dispatch ==
  /\ OnGeneric /\ pc[Ui] = "in_loop" /\ lifecycle = "Running"
  /\ event_rx # <<>>
  /\ LET id == EventNext(event_rx)
         cb == Lookup(callback, id)
     IN /\ event_rx' = EventRest(event_rx)
        /\ handled' = Append(handled, [id |-> id, registered |-> callback[id] # None])
        /\ IF cb # None
             THEN /\ running' = Append(running, [id |-> id, cb |-> cb])
                  /\ invoked' = Append(invoked, [id |-> id, cb |-> cb])
                  /\ pc' = [pc EXCEPT ![Ui] = "in_callback"]
             ELSE UNCHANGED <<running, invoked, pc>>
  /\ UNCHANGED <<platform, outcome, quitCalled, cocoaVars, lifecycle, menu,
                 menu_idx, callback, activated, returned, addLog>>

\* The running callback does its work and returns to the loop:
\*   "print" prints; "nest" adds an interior item and a separator;
\*   "quit" calls window.quit().
callback_return ==
  /\ OnGeneric /\ pc[Ui] = "in_callback"
  /\ LET cb == running[Len(running)].cb IN
       /\ cb = "nest" => Room(Facade, 1, 2)
       /\ SetFacade(IF cb = "nest"
                      THEN AddSeparator(AddItem(Facade, "print"))
                      ELSE Facade)
       /\ lifecycle' = IF cb = "quit" THEN "Terminating" ELSE lifecycle
       /\ quitCalled' = IF cb = "quit"
                          THEN [quitCalled EXCEPT ![1] = TRUE]
                          ELSE quitCalled
  /\ running' = SubSeq(running, 1, Len(running) - 1)
  /\ pc' = [pc EXCEPT ![Ui] = "in_loop"]
  /\ UNCHANGED <<platform, outcome, cocoaVars, event_rx, activated, handled,
                 invoked>>

\* The loop observes Terminating and returns: Terminating -> Terminated.
loop_return ==
  /\ OnGeneric /\ pc[Ui] = "in_loop" /\ lifecycle = "Terminating"
  /\ lifecycle' = "Terminated"
  /\ pc' = [pc EXCEPT ![Ui] = "idle"]
  /\ outcome' = Outcome(Ui, 1, "wait_for_message", "Ok")
  /\ UNCHANGED <<platform, quitCalled, cocoaVars, menu, menu_idx, callback,
                 event_rx, running, activated, handled, invoked, returned,
                 addLog>>

\* ---------------------------------------------------------------- Next
\* The steps of application thread t on the cocoa platform.
ThreadNext(t) ==
  \/ \E w \in Windows : app_lock(t, w)
  \/ app_lock_acquired(t)
  \/ \E w \in Windows : new_setActivationPolicy(t, w)
  \/ new(t)
  \/ run(t)
  \/ \E text \in Texts : set_tooltip(t, text)
  \/ quit(t)
  \/ add_menu_item(t)
  \/ set_icon_from_resource(t)
  \/ set_icon_from_file(t)
  \/ add_menu_separator(t)
  \/ add_menu_entry(t)
  \/ \E buf \in Buffers, width \in Sizes, height \in Sizes :
       set_icon_from_buffer(t, buf, width, height)
  \/ wait_for_message(t)
  \/ shutdown(t)

\* The steps of the listener thread of window w.
ListenerNext(w) ==
  \/ run_lister_recv(w)
  \/ run_lister_setImage(w)

\* The steps of the generic platform.
GenericNext ==
  \/ Application_new
  \/ \E cb \in Callbacks : Application_add_menu_item(cb)
  \/ Application_add_menu_separator
  \/ Application_quit
  \/ Application_wait_for_message
  \/ \E id \in 0..(MaxItems - 1) : native_activate(id)
  \/ dispatch
  \/ callback_return
  \/ loop_return

Next ==
  \/ \E t \in AppThreads : ThreadNext(t)
  \/ \E w \in Windows : ListenerNext(w)
  \/ GenericNext

Spec == Init /\ [][Next]_vars

\* The operating system schedules every thread that can take a step.
Fairness ==
  /\ \A t \in AppThreads : WF_vars(ThreadNext(t))
  /\ \A w \in Windows : WF_vars(ListenerNext(w))
FairSpec == Spec /\ Fairness

\* ================================================================ claims

\* C1: wait_for_message() and run() block until quit() is invoked: no call
\* of wait_for_message has returned Ok on a backend whose quit() was never
\* called (and no call of run has returned at all).
C1_BlocksUntilQuit ==
  /\ ~(outcome.op = "wait_for_message" /\ outcome.res = "Ok"
       /\ ~quitCalled[outcome.w])
  /\ outcome.op # "run"

\* C2: a call of quit() does not abort the thread that makes it (the event
\* loop then returns and nothing more is dispatched).
C2_QuitDoesNotAbort ==
  /\ outcome.op = "quit" => outcome.res # "panic"
  /\ lifecycle \in {"Terminating", "Terminated"} => pc[Ui] # "in_callback"

\* The received events whose id had a callback when they were received.
RegisteredHandled == SelectSeq(handled, LAMBDA h : h.registered)
\* C3: every received MenuItemActivated(id) with a registered id has invoked
\* exactly the callback registered under id, once, in the order of receipt
\* (which is the order the events were queued), and at most one callback is
\* executing at any time.
C3_DispatchExactlyOnceInOrder ==
  /\ Len(running) <= 1
  /\ [i \in 1..Len(handled) |-> handled[i].id] \o event_rx = activated
  /\ invoked = [i \in 1..Len(RegisteredHandled) |->
                  [id |-> RegisteredHandled[i].id,
                   cb |-> callback[RegisteredHandled[i].id]]]
\* Two events with different registered ids have been dispatched.
C3_Witness ==
  /\ Len(invoked) >= 2
  /\ invoked[1].id # invoked[2].id
  /\ invoked[1].cb # invoked[2].cb

\* C4: the ids returned by the successful add_menu_item calls are 0, 1, 2,
\* ... in call order, whatever separators were added in between and whether
\* the call came from the application or from inside a callback.
C4_IdsCountUp == \A i \in 1..Len(returned) : returned[i] = i - 1
\* Two ids were returned, one of them to a callback, after a separator.
C4_Witness ==
  /\ Len(returned) >= 2
  /\ \E k \in 1..Len(invoked) : invoked[k].cb = "nest"
  /\ \E i, j \in 1..Len(menu) :
       i < j /\ menu[i].kind = "separator" /\ menu[j].kind = "item"

\* C5: native UI objects are mutated by the thread that runs the event loop
\* only: no listener thread has mutated one.
C5_OnlyUiThreadMutates == \A m \in mutations : m.by \notin ListenerThreads

\* C6: a thread that asks for the shared application is not blocked for
\* ever: a call of lock() is followed by its return.
C6_ProducerGetsAccess ==
  \A t \in AppThreads :
    (Alive /\ pc[t] = "locking") ~> (~Alive \/ pc[t] # "locking")

\* The events of q that thread t sent.
FromThread(q, t) == SelectSeq(q, LAMBDA e : e.from = t)
\* C7: the events one thread sent on a window's handler channel are received
\* by the listener in the order sent, none twice; those not yet received
\* are still queued, in order.
C7_FifoPerProducer ==
  \A w \in Windows, t \in AppThreads :
    FromThread(consumedLog[w] \o handler[w], t) = FromThread(sentLog[w], t)
\* The listener has received two different images sent by one thread.
C7_Witness ==
  \E w \in Windows :
    /\ Len(consumedLog[w]) >= 2
    /\ consumedLog[w][1].from = consumedLog[w][2].from
    /\ consumedLog[w][1].buf # consumedLog[w][2].buf

\* Thread t holds a SafeId guard that wraps native object o.
HoldsGuardOf(t, o) ==
  \E w \in Windows :
    \/ guardApp[w] = t /\ WrappedByApplication(w) = o
    \/ guardTray[w] = t /\ WrappedByTray(w) = o
\* C8: at most one thread is inside a call on a native object, and that
\* thread holds a SafeId guard that wraps the object.
C8_SerializedByGuard ==
  \A o \in NativeObjects :
    /\ Cardinality(using[o]) <= 1
    /\ \A t \in using[o] : HoldsGuardOf(t, o)

\* The methods whose body is unimplemented!().
NotImplemented == {"set_icon_from_file", "set_icon_from_resource",
                   "add_menu_item", "add_menu_separator", "add_menu_entry",
                   "quit"}
\* C9: an operation the cocoa backend does not implement ends by returning
\* an OsError to its caller.
C9_TypedError ==
  (platform = "cocoa" /\ outcome.op \in NotImplemented)
    => outcome.res = "OsError"

\* The step in which a thread's set_tooltip call ends.
C10_TooltipStep ==
  /\ outcome'.op = "set_tooltip"
  /\ \E t \in AppThreads : pc[t] = "holding" /\ pc'[t] = "idle"
\* C10: a step in which a set_tooltip call ends leaves an OsError as its
\* result and changes nothing of the backend: no event queued, tray image,
\* menu and listener as before.
C10_TooltipUnsupported ==
  [][C10_TooltipStep =>
       /\ outcome'.res = "OsError"
       /\ UNCHANGED <<created, guardApp, guardTray, handler, lpc, pending,
                      trayImage, using, mutations, sleepers, sentLog,
                      menu, menu_idx, callback, lifecycle>>]_vars
\* set_tooltip has failed on a window whose tray shows an image.
C10_Witness ==
  /\ outcome.op = "set_tooltip" /\ outcome.res = "OsError"
  /\ trayImage[outcome.w] # NoImage

\* The backend of window w has been terminated: shutdown() has returned on
\* it (quit() of the cocoa backend never returns), or the generic loop has
\* unwound to Terminated.
Terminated(w) ==
  \/ platform = "cocoa" /\ shut[w]
  \/ platform = "generic" /\ w = 1 /\ lifecycle = "Terminated"
\* C11: once a backend is terminated, no step queues or applies an icon
\* change on it, and every call on it that ends, ends with the 'already
\* shut down' error.
C11_NothingAfterTermination ==
  [][\A w \in Windows :
       Terminated(w) =>
         /\ sentLog'[w] = sentLog[w]
         /\ trayImage'[w] = trayImage[w]
         /\ (outcome' # outcome /\ outcome'.w = w)
              => outcome'.res = "AlreadyShutDown"]_vars

\* C12: no SafeId guard is held by a thread that is blocked in the event
\* loop: run() does not keep the application handle locked while it loops.
C12_NoGuardHeldInLoop ==
  \A w \in Windows, t \in AppThreads :
    pc[t] = "in_run" => (guardApp[w] # t /\ guardTray[w] # t)

\* The step in which the loop receives an event whose id has no callback.
C13_UnknownIdStep ==
  /\ Len(handled') = Len(handled) + 1
  /\ ~handled'[Len(handled')].registered
\* C13: a received MenuItemActivated(id) without registered callback is
\* ignored: no callback starts, nothing is returned from the loop, the
\* callback map and the menu stay as they are and the loop keeps waiting
\* for the next event.
C13_UnknownIdIgnored ==
  [][C13_UnknownIdStep =>
       /\ UNCHANGED <<running, invoked, callback, menu, menu_idx, lifecycle,
                      outcome>>
       /\ pc'[Ui] = "in_loop"]_vars
\* An event without callback was received and a later event dispatched.
C13_Witness ==
  \E i, j \in 1..Len(handled) :
    i < j /\ ~handled[i].registered /\ handled[j].registered

\* The step in which a call of quit() ends.
C14_QuitStep ==
  /\ outcome'.op = "quit"
  /\ \/ outcome' # outcome
     \/ \E t \in AppThreads : pc[t] = "holding" /\ pc'[t] # "holding"
\* C14: quit() is idempotent: a call of quit() ends without failure, and a
\* call made after an earlier quit() on the same backend changes nothing.
C14_QuitIdempotent ==
  [][C14_QuitStep =>
       /\ outcome'.res = "Ok"
       /\ quitCalled[outcome'.w] =>
            UNCHANGED <<lifecycle, handler, trayImage, menu, callback>>]_vars

\* The kinds of the menu's entries from top to bottom, and the ids of its
\* items from top to bottom.
C15_Kinds == [i \in 1..Len(menu) |-> menu[i].kind]
C15_ItemIds == SelectSeq([i \in 1..Len(menu) |-> menu[i].id], LAMBDA x : x >= 0)
\* C15: the entries of the menu are in the order of the add_menu_item and
\* add_menu_separator calls: one entry per call, of the call's kind, and
\* the items carry the returned ids in call order.
C15_MenuOrderIsCallOrder ==
  /\ C15_Kinds = addLog
  /\ C15_ItemIds = returned
\* A separator was added before an item, also from inside a callback.
C15_Witness ==
  /\ Len(menu) = MaxMenu
  /\ \E i, j \in 1..Len(menu) :
       i < j /\ menu[i].kind = "separator" /\ menu[j].kind = "item"
  /\ \E k \in 1..Len(invoked) : invoked[k].cb = "nest"

\* The k-th event sent to window w has been applied to the tray button.
C16_Applied(w, k) ==
  \/ Len(consumedLog[w]) > k
  \/ Len(consumedLog[w]) = k /\ lpc[w] = "poll"
\* The step in which a set_icon_from_buffer call returns Ok.
C16_CallReturns ==
  \E w \in Windows : Len(sentLog'[w]) = Len(sentLog[w]) + 1
\* C16: every set_icon_from_buffer call that returned Ok is eventually
\* followed by the tray image being set to the image of its buffer; the
\* call itself enqueues one ChangeImage and leaves the tray image alone;
\* once every request is processed the tray shows the last requested image.
C16_IconEventuallyApplied ==
  /\ \A w \in Windows, k \in 1..MaxSends :
       (Len(sentLog[w]) >= k) ~> C16_Applied(w, k)
  /\ [][C16_CallReturns =>
          /\ trayImage' = trayImage
          /\ \E w \in Windows :
               /\ Len(handler'[w]) = Len(handler[w]) + 1
               /\ handler'[w][Len(handler'[w])].kind = "ChangeImage"]_vars
  /\ [](\A w \in Windows :
          (sentLog[w] # <<>> /\ \A k \in 1..Len(sentLog[w]) : C16_Applied(w, k))
            => trayImage[w].data = sentLog[w][Len(sentLog[w])].buf)

\* The number of events sent to window w that have been applied.
C17_AppliedCount(w) ==
  IF lpc[w] = "setImage" THEN Len(consumedLog[w]) - 1 ELSE Len(consumedLog[w])
\* C17: the size applied to the tray image equals the width and height
\* passed to the set_icon_from_buffer call whose image it is.
C17_AppliedSizeIsRequested ==
  \A w \in Windows :
    C17_AppliedCount(w) > 0 =>
      /\ trayImage[w].width = requestedSize[w][C17_AppliedCount(w)].width
      /\ trayImage[w].height = requestedSize[w][C17_AppliedCount(w)].height

\* C18: after shutdown() or quit() was called on a window, its listener
\* thread eventually leaves its loop and terminates (or the process ends).
C18_ListenerCleanedUp ==
  \A w \in Windows :
    (platform = "cocoa" /\ (shut[w] \/ quitCalled[w]))
      ~> (lpc[w] = "dead" \/ ~Alive)

\* The SafeId guards thread t holds.
C19_GuardsHeld(t) ==
  {<<"application", w>> : w \in {v \in Windows : guardApp[v] = t}}
    \cup {<<"tray", w>> : w \in {v \in Windows : guardTray[v] = t}}
\* C19: no thread holds two SafeId guards at once, and no thread waits for
\* a SafeId guard: a thread about to call run() finds the application guard
\* free, and the listener finds the tray guard free whenever it polls, so it
\* can take and apply a queued icon change also while a thread is in run().
C19_NoGuardDeadlock ==
  /\ \A t \in AppThreads \cup ListenerThreads : Cardinality(C19_GuardsHeld(t)) <= 1
  /\ \A t \in AppThreads : Calling(t) => guardApp[cur[t]] = None
  /\ \A w \in Windows :
       /\ lpc[w] = "poll" => guardTray[w] = None
       /\ (platform = "cocoa" /\ Alive /\ lpc[w] = "setImage")
            => ENABLED run_lister_setImage(w)
       /\ (platform = "cocoa" /\ Alive /\ lpc[w] = "poll" /\ handler[w] # <<>>)
            => ENABLED run_lister_recv(w)
\* The listener holds the tray guard inside setImage_ while an application
\* thread is inside run() on the same window holding the application guard,
\* and the listener has applied an image before.
C19_Witness ==
  \E w \in Windows, t \in AppThreads :
    /\ pc[t] = "in_run" /\ cur[t] = w /\ guardApp[w] = t
    /\ lpc[w] = "setImage" /\ guardTray[w] = Listener(w)
    /\ Len(consumedLog[w]) = 2

\* C20: set_icon_from_buffer returns Ok and never panics on send().unwrap():
\* the listener thread, which owns the receiver, never exits, since every
\* event ever sent on the handler channel is a ChangeImage.
C20_SendNeverPanics ==
  /\ outcome.op = "set_icon_from_buffer" => outcome.res = "Ok"
  /\ \A w \in Windows :
       /\ lpc[w] # "dead"
       /\ \A i \in 1..Len(sentLog[w]) : sentLog[w][i].kind = "ChangeImage"
\* A set_icon_from_buffer call returned Ok after the listener had already
\* received an earlier event of the same window.
C20_Witness ==
  /\ outcome.op = "set_icon_from_buffer" /\ outcome.res = "Ok"
  /\ Len(sentLog[outcome.w]) = 2
  /\ Len(consumedLog[outcome.w]) >= 1
  /\ handler[outcome.w] # <<>>

====
